---------------------------- MODULE Spec2Model ----------------------------
(***************************************************************************)
(* Model of wav_note_detector (src/src/main.rs): the frame scan over the   *)
(* decoded samples, the spectral peak search, the frequency-to-MIDI-note   *)
(* quantizer, the note histogram, and its ranking and presentation.        *)
(*                                                                         *)
(* Number representation.  The program computes in f32.  Here              *)
(*   - amplitudes, window weights and magnitudes are integers in           *)
(*     thousandths (1000 stands for 1.0, the noise threshold 0.01 is 10);  *)
(*   - a frequency is an exact fraction <<num, den>> in Hz;                *)
(*   - log2 is a fixed-point binary logarithm (LogScale steps per octave). *)
(* rustfft is an external crate: the magnitudes it leaves in the scratch   *)
(* buffer are any values for a non-zero frame and all zero for a zero      *)
(* frame (the transform is linear).  The iteration order of                *)
(* std::collections::HashMap depends on the per-process RandomState seed.  *)
(***************************************************************************)
EXTENDS Integers, Sequences, FiniteSets, TLC

VARIABLES
    pc,           \* position in main / in the function under study
    fft_size,     \* main.rs:53
    sample_rate,  \* main.rs:41
    samples,      \* main.rs:42, amplitudes in thousandths, 1-indexed here
    start,        \* main.rs:66, the next offset the step_by iterator yields
    frames,       \* number of loop bodies entered so far
    buffer,       \* main.rs:59, magnitudes of the scratch buffer after the FFT
    max_bin,      \* main.rs:75
    max_mag,      \* main.rs:74
    freq,         \* main.rs:84 / argument of freq_to_midi_note
    midi_note,    \* main.rs:91 / result of freq_to_midi_note: None or Some(n)
    name,         \* main.rs:103 / result of midi_note_to_name
    note_counts,  \* main.rs:62
    counts_vec,   \* main.rs:98
    shown         \* main.rs:102-105, the lines printed

vars == <<pc, fft_size, sample_rate, samples, start, frames, buffer, max_bin,
          max_mag, freq, midi_note, name, note_counts, counts_vec, shown>>

-----------------------------------------------------------------------------
(* Bounds of the model *)

MaxFftSize == 6
MaxSamples == 12
MaxMagLevel == 2
MaxSeed == 3
MaxHz == 13200
MaxCount == 2
MaxSmallKeys == 3
MaxExtraKeys == 2

(* Program constants *)

TopK == 10
NoiseThreshold == 10
LowCutoff == 20
RefFreq == 440
RefNote == 69
MaxMidi == 127

-----------------------------------------------------------------------------
(* Option<u8> *)

None == <<>>
Some(x) == <<x>>

Min(a, b) == IF a < b THEN a ELSE b
Max(a, b) == IF a > b THEN a ELSE b

(* usize::saturating_sub and u8::saturating_sub *)
SaturatingSub(a, b) == IF a >= b THEN a - b ELSE 0

-----------------------------------------------------------------------------
(* hann: sin(pi*i/size)^2 in thousandths.  sin(pi*x) is evaluated by the   *)
(* rational form 16x(1-x) / (5 - 4x(1-x)), exact at x = 0, 1/6, 1/2.       *)

SinPi(i, size) == (1000 * 16 * i * (size - i)) \div (5 * size * size - 4 * i * (size - i))

hann(i, size) == (SinPi(i, size) * SinPi(i, size)) \div 1000

(* main.rs:58 *)
Window(size) == [i \in 0..(size - 1) |-> hann(i, size)]

(* Variant: the weight added to the sample instead of multiplied *)
WindowedAdded(s, w) == s + w

(* main.rs:68: one sample times its window weight *)
Windowed(s, w) == (s * w) \div 1000

(* main.rs:67-70: the frame at offset st loaded into the scratch buffer *)
LoadFrame(smp, st, size) ==
    [i \in 0..(size - 1) |-> Windowed(smp[st + i + 1], Window(size)[i])]

-----------------------------------------------------------------------------
(* fft.process (rustfft) followed by Complex::norm                         *)

Mags == {5 * m : m \in 0..MaxMagLevel}

ZeroSpectrum(size) == [k \in 0..(size - 1) |-> 0]

(* A real input gives |X[size-k]| = |X[k]|, so bins 0 .. size/2 fix the    *)
(* rest.  The bins the peak search reads (1 .. size/2 - 1) take any         *)
(* magnitude, bin 0 and bin size/2 the extreme ones only.                  *)
SearchBins(size) == 1..(size \div 2 - 1)

OuterBins(size) == (0..(size \div 2)) \ SearchBins(size)

RealSpectra(size) ==
    {[k \in 0..(size - 1) |->
        LET b == IF k <= size \div 2 THEN k ELSE size - k
        IN  IF b \in SearchBins(size) THEN c[b] ELSE e[b]] :
        c \in [SearchBins(size) -> Mags],
        e \in [OuterBins(size) -> {0, 5 * MaxMagLevel}]}

FftMagnitudes(frame, size) ==
    IF \A i \in DOMAIN frame : frame[i] = 0
    THEN {ZeroSpectrum(size)}
    ELSE RealSpectra(size)

-----------------------------------------------------------------------------
(* main.rs:74-82: the peak search over bins 1 .. size/2 - 1                *)

RECURSIVE PeakScan(_, _, _, _, _)
PeakScan(spec, i, hi, bestBin, bestMag) ==
    IF i >= hi
    THEN [bin |-> bestBin, mag |-> bestMag]
    ELSE IF spec[i] > bestMag
         THEN PeakScan(spec, i + 1, hi, i, spec[i])
         ELSE PeakScan(spec, i + 1, hi, bestBin, bestMag)

(* Variant: `>=` in the comparison, so the last of equal bins wins *)
RECURSIVE PeakScanLast(_, _, _, _, _)
PeakScanLast(spec, i, hi, bestBin, bestMag) ==
    IF i >= hi
    THEN [bin |-> bestBin, mag |-> bestMag]
    ELSE IF spec[i] >= bestMag
         THEN PeakScanLast(spec, i + 1, hi, i, spec[i])
         ELSE PeakScanLast(spec, i + 1, hi, bestBin, bestMag)

PeakExtractLastWins(spec, size) == PeakScanLast(spec, 1, size \div 2, 0, 0)

PeakExtract(spec, size) == PeakScan(spec, 1, size \div 2, 0, 0)

(* main.rs:84: max_bin * sample_rate / fft_size, as a fraction *)
BinFreq(bin, rate, size) == <<bin * rate, size>>

(* main.rs:87: the two rejection filters *)
Rejected(f, mag) == f[1] < LowCutoff * f[2] \/ mag < NoiseThreshold

-----------------------------------------------------------------------------
(* f32::log2 of p/q (p, q > 0) in fixed point: LogScale steps per octave,  *)
(* by exponent extraction and repeated squaring of the mantissa.           *)

One == 2 ^ 13
LogBits == 10
LogScale == 2 ^ LogBits

RECURSIVE Exponent(_, _)
Exponent(p, q) ==
    IF p >= 2 * q THEN 1 + Exponent(p, 2 * q)
    ELSE IF p < q THEN Exponent(2 * p, q) - 1
    ELSE 0

RECURSIVE Mantissa(_, _)
Mantissa(p, q) ==
    IF p >= 2 * q THEN Mantissa(p, 2 * q)
    ELSE IF p < q THEN Mantissa(2 * p, q)
    ELSE (p * One) \div q

RECURSIVE FracBits(_, _)
FracBits(x, n) ==
    IF n = 0 THEN 0
    ELSE LET y == (x * x) \div One
         IN  IF y >= 2 * One
             THEN 2 ^ (n - 1) + FracBits(y \div 2, n - 1)
             ELSE FracBits(y, n - 1)

Log2(p, q) == Exponent(p, q) * LogScale + FracBits(Mantissa(p, q), LogBits)

(* f32::round: half away from zero, on a fixed-point value *)
Round(v) ==
    IF v >= 0 THEN (v + LogScale \div 2) \div LogScale
    ELSE -((-v + LogScale \div 2) \div LogScale)

(* `as u8`: a saturating cast *)
AsU8(x) == IF x < 0 THEN 0 ELSE IF x > 255 THEN 255 ELSE x

(* main.rs:16: 69.0 + 12.0 * (freq / 440.0).log2(), in LogScale-ths *)
NoteNum(f) == RefNote * LogScale + 12 * Log2(f[1], RefFreq * f[2])

(* main.rs:12-22 *)
freq_to_midi_note(f) ==
    IF f[1] <= 0 THEN None
    ELSE IF NoteNum(f) < 0 \/ NoteNum(f) > MaxMidi * LogScale THEN None
    ELSE Some(AsU8(Round(NoteNum(f))))

(* main.rs:24-29 *)
note_names == <<"C", "C#", "D", "D#", "E", "F", "F#", "G", "G#", "A", "A#", "B">>

(* Variant: a plain subtraction for the octave *)
OctavePlainSub(note) == note \div 12 - 1

Octave(note) == SaturatingSub(note \div 12, 1)

midi_note_to_name(note) == note_names[(note % 12) + 1] \o ToString(Octave(note))

-----------------------------------------------------------------------------
(* main.rs:62, 93: HashMap<u8, usize> and entry(k).or_insert(0) += 1       *)

EmptyMap == [k \in {} |-> 0]

OrInsert(h, k, v) ==
    IF k \in DOMAIN h THEN h
    ELSE [j \in DOMAIN h \cup {k} |-> IF j = k THEN v ELSE h[j]]

(* Variant: or_insert(1) for an unseen key *)
IncrementFromOne(h, k) == [OrInsert(h, k, 1) EXCEPT ![k] = @ + 1]

Increment(h, k) == [OrInsert(h, k, 0) EXCEPT ![k] = @ + 1]

(* main.rs:91-94 *)
Count(h, note) == IF note = None THEN h ELSE Increment(h, note[1])

(* main.rs:84-94: from the peak of one frame to the note counted, if any *)
FrameNote(f, mag) == IF Rejected(f, mag) THEN None ELSE freq_to_midi_note(f)

-----------------------------------------------------------------------------
(* main.rs:98: note_counts.into_iter().collect().  The order is that of    *)
(* the hash table, fixed by the RandomState seed of the run.               *)

Seeds == 0..MaxSeed

Bucket(k, seed) == ((74 * seed + 1) * k + seed) % 256

RECURSIVE OrderKeys(_, _)
OrderKeys(keys, seed) ==
    IF keys = {} THEN <<>>
    ELSE LET k == CHOOSE k \in keys :
                      \A j \in keys : Bucket(k, seed) <= Bucket(j, seed)
         IN  <<k>> \o OrderKeys(keys \ {k}, seed)

IntoIter(h, seed) ==
    LET order == OrderKeys(DOMAIN h, seed)
    IN  [i \in 1..Len(order) |-> <<order[i], h[order[i]]>>]

(* main.rs:99: sort_by(|a, b| b.1.cmp(&a.1)), a stable sort *)
(* Variant: the comparator's operands swapped, an ascending sort *)
ComesBeforeAscending(a, b) == a[2] <= b[2]

ComesBefore(a, b) == a[2] >= b[2]

RECURSIVE InsertSorted(_, _)
InsertSorted(sorted, e) ==
    IF sorted = <<>> THEN <<e>>
    ELSE IF ComesBefore(sorted[Len(sorted)], e)
         THEN Append(sorted, e)
         ELSE Append(InsertSorted(SubSeq(sorted, 1, Len(sorted) - 1), e),
                     sorted[Len(sorted)])

RECURSIVE SortByCount(_)
SortByCount(s) ==
    IF s = <<>> THEN <<>>
    ELSE InsertSorted(SortByCount(SubSeq(s, 1, Len(s) - 1)), s[Len(s)])

(* main.rs:102: counts_vec.iter().take(10) *)
Take(s, n) == SubSeq(s, 1, Min(n, Len(s)))

(* main.rs:102-105: one printed line per entry taken *)
Lines(s) == [i \in 1..Len(s) |-> <<midi_note_to_name(s[i][1]), s[i][2]>>]

-----------------------------------------------------------------------------
(* main.rs:54 *)
hop_size == fft_size \div 2

(* main.rs:66: the end of the range the step_by iterator walks *)
(* Variant: the range runs to samples.len() *)
ScanEndAtLen(len, size) == len

(* Variant: a wrapping subtraction (16 bits wide here) *)
ScanEndWrapping(len, size) == (len - size) % (2 ^ 16)

ScanEnd(len, size) == SaturatingSub(len, size)

(* The sample buffers: silence, with at most one burst of full amplitude *)
SampleBuffers ==
    {[i \in 1..n |-> IF lo <= i /\ i <= hi THEN 1000 ELSE 0] :
        n \in 0..MaxSamples, lo \in 1..MaxSamples, hi \in 0..MaxSamples}

SampleRates == {60, 8000, 44100}

Init ==
    /\ pc = "scan"
    /\ fft_size \in 2..MaxFftSize
    /\ sample_rate \in SampleRates
    /\ samples \in SampleBuffers
    /\ start = 0
    /\ frames = 0
    /\ buffer = <<>>
    /\ max_bin = 0
    /\ max_mag = 0
    /\ freq = <<0, 1>>
    /\ midi_note = None
    /\ name = ""
    /\ note_counts = EmptyMap
    /\ counts_vec = <<>>
    /\ shown = <<>>

(* main.rs:66-95: one iteration of the loop.  Indexing samples past its    *)
(* end panics.  The scratch buffer is rewritten whole before it is read,   *)
(* so its content does not outlive the iteration.                          *)
ProcessFrame ==
    /\ pc = "scan"
    /\ start < ScanEnd(Len(samples), fft_size)
    /\ frames' = frames + 1
    /\ IF start + fft_size > Len(samples)
       THEN /\ pc' = "panic"
            /\ UNCHANGED <<start, max_bin, max_mag, freq, midi_note, note_counts>>
       ELSE \E spectrum \in FftMagnitudes(LoadFrame(samples, start, fft_size), fft_size) :
                LET peak == PeakExtract(spectrum, fft_size)
                    f    == BinFreq(peak.bin, sample_rate, fft_size)
                    note == FrameNote(f, peak.mag)
                IN  /\ max_bin' = peak.bin
                    /\ max_mag' = peak.mag
                    /\ freq' = f
                    /\ midi_note' = note
                    /\ note_counts' = Count(note_counts, note)
                    /\ start' = start + hop_size
                    /\ pc' = "scan"
    /\ UNCHANGED <<fft_size, sample_rate, samples, buffer, name, counts_vec, shown>>

(* main.rs:66: the iterator is exhausted and the loop ends *)
EndScan ==
    /\ pc = "scan"
    /\ ~(start < ScanEnd(Len(samples), fft_size))
    /\ pc' = "sort"
    /\ UNCHANGED <<fft_size, sample_rate, samples, start, frames, buffer, max_bin,
                   max_mag, freq, midi_note, name, note_counts, counts_vec, shown>>

(* main.rs:97-99: collect and sort *)
Rank ==
    /\ pc = "sort"
    /\ \E seed \in Seeds :
           counts_vec' = SortByCount(IntoIter(note_counts, seed))
    /\ pc' = "print"
    /\ UNCHANGED <<fft_size, sample_rate, samples, start, frames, buffer, max_bin,
                   max_mag, freq, midi_note, name, note_counts, shown>>

(* main.rs:101-107 *)
Present ==
    /\ pc = "print"
    /\ shown' = Lines(Take(counts_vec, TopK))
    /\ pc' = "done"
    /\ UNCHANGED <<fft_size, sample_rate, samples, start, frames, buffer, max_bin,
                   max_mag, freq, midi_note, name, note_counts, counts_vec>>

Next == ProcessFrame \/ EndScan \/ Rank \/ Present

Spec == Init /\ [][Next]_vars

-----------------------------------------------------------------------------
(* The ranking and presentation alone (main.rs:97-105), from the           *)
(* histograms a scan can leave behind.  After the loop only note_counts is *)
(* read; the scan's other variables keep their initial values here.        *)

RankNotes(n) == {55 + i : i \in 1..n}

SmallHistograms ==
    UNION {[keys -> 1..MaxCount] : keys \in SUBSET RankNotes(MaxSmallKeys)}

WideHistograms ==
    {[k \in RankNotes(n) |-> 1 + ((k * step + off) % (MaxCount + 1))] :
        n \in (TopK - 1)..(TopK + MaxExtraKeys),
        step \in 0..MaxCount, off \in 0..MaxCount}

InitRank ==
    /\ pc = "sort"
    /\ note_counts \in SmallHistograms \cup WideHistograms
    /\ fft_size = 2
    /\ sample_rate = 8000
    /\ samples = <<>>
    /\ start = 0
    /\ frames = 0
    /\ buffer = <<>>
    /\ max_bin = 0
    /\ max_mag = 0
    /\ freq = <<0, 1>>
    /\ midi_note = None
    /\ name = ""
    /\ counts_vec = <<>>
    /\ shown = <<>>

NextRank == Rank \/ Present

SpecRank == InitRank /\ [][NextRank]_vars

-----------------------------------------------------------------------------
(* The quantizer and the namer as functions (main.rs:12-29)                *)

PitchFreqs == {<<n, 1>> : n \in (-2)..MaxHz} \cup {<<26163, 100>>}

InitPitch ==
    /\ \/ pc = "quantize" /\ freq \in PitchFreqs /\ midi_note = None
       \/ pc = "name" /\ freq = <<0, 1>> /\ midi_note \in {Some(n) : n \in 0..255}
    /\ name = ""
    /\ fft_size = 2
    /\ sample_rate = 8000
    /\ samples = <<>>
    /\ start = 0
    /\ frames = 0
    /\ buffer = <<>>
    /\ max_bin = 0
    /\ max_mag = 0
    /\ note_counts = EmptyMap
    /\ counts_vec = <<>>
    /\ shown = <<>>

Quantize ==
    /\ pc = "quantize"
    /\ midi_note' = freq_to_midi_note(freq)
    /\ pc' = "quantized"
    /\ UNCHANGED <<fft_size, sample_rate, samples, start, frames, buffer, max_bin,
                   max_mag, freq, name, note_counts, counts_vec, shown>>

NameNote ==
    /\ pc \in {"quantized", "name"}
    /\ midi_note # None
    /\ name' = midi_note_to_name(midi_note[1])
    /\ pc' = "named"
    /\ UNCHANGED <<fft_size, sample_rate, samples, start, frames, buffer, max_bin,
                   max_mag, freq, midi_note, note_counts, counts_vec, shown>>

NextPitch == Quantize \/ NameNote

SpecPitch == InitPitch /\ [][NextPitch]_vars

-----------------------------------------------------------------------------
(* The peak search as a function of the spectrum (main.rs:74-82)           *)

InitPeak ==
    /\ pc = "peak"
    /\ fft_size \in 2..MaxFftSize
    /\ buffer \in [0..(fft_size - 1) -> Mags]
    /\ max_bin = 0
    /\ max_mag = 0
    /\ sample_rate = 8000
    /\ samples = <<>>
    /\ start = 0
    /\ frames = 0
    /\ freq = <<0, 1>>
    /\ midi_note = None
    /\ name = ""
    /\ note_counts = EmptyMap
    /\ counts_vec = <<>>
    /\ shown = <<>>

FindPeak ==
    /\ pc = "peak"
    /\ max_bin' = PeakExtract(buffer, fft_size).bin
    /\ max_mag' = PeakExtract(buffer, fft_size).mag
    /\ pc' = "peaked"
    /\ UNCHANGED <<fft_size, sample_rate, samples, start, frames, buffer, freq,
                   midi_note, name, note_counts, counts_vec, shown>>

NextPeak == FindPeak

SpecPeak == InitPeak /\ [][NextPeak]_vars

-----------------------------------------------------------------------------
(* Properties                                                              *)

Silent == \A i \in DOMAIN samples : samples[i] = 0

Keys == DOMAIN note_counts

RECURSIVE SumOver(_, _)
SumOver(h, keys) ==
    IF keys = {} THEN 0
    ELSE LET k == CHOOSE k \in keys : TRUE
         IN  h[k] + SumOver(h, keys \ {k})

Total(h) == SumOver(h, DOMAIN h)

ScanOver == pc \in {"sort", "print", "done"}

(* C1: once the scan is over, a buffer of N >= F samples has had exactly   *)
(* floor((N - F) / H) + 1 frames processed (one frame when N = F).         *)
C1_FrameCount ==
    (ScanOver /\ Len(samples) >= fft_size)
        => frames = ((Len(samples) - fft_size) \div hop_size) + 1

(* C2: the quantizer returns no pitch for freq <= 0; otherwise it returns  *)
(* the rounded pitch number whenever the rounded value lies in [0, 127],   *)
(* and no pitch only when the rounded value lies outside [0, 127].         *)
C2_RoundedRange ==
    pc = "quantized" =>
        midi_note = IF freq[1] <= 0 THEN None
                    ELSE IF Round(NoteNum(freq)) \in 0..MaxMidi
                         THEN Some(Round(NoteNum(freq)))
                         ELSE None

(* C3: the ranked sequence is the same whatever order the map's iterator   *)
(* yields the entries in, the order of tied pitches included.              *)
C3_RankDeterministic ==
    pc \in {"print", "done"} =>
        \A seed \in Seeds : SortByCount(IntoIter(note_counts, seed)) = counts_vec

Candidates == 1..(fft_size \div 2 - 1)

PeakIsLowestMaximum ==
    /\ max_bin \in Candidates
    /\ max_mag = buffer[max_bin]
    /\ \A k \in Candidates : buffer[k] <= max_mag
    /\ \A k \in Candidates : k < max_bin => buffer[k] < max_mag

(* C4 as stated: for every spectrum with a candidate bin, the all-zero one *)
(* included, the peak is the lowest candidate bin of largest magnitude.    *)
C4_PeakInCandidates ==
    (pc = "peaked" /\ Candidates # {}) => PeakIsLowestMaximum

(* C4 amended: the peak is the lowest candidate bin of largest magnitude   *)
(* when some candidate bin has a positive magnitude; when none has (all    *)
(* zero, or no candidate bin at all) the result is bin 0 with magnitude 0. *)
C4_PeakOrBinZero ==
    pc = "peaked" =>
        IF \E k \in Candidates : buffer[k] > 0
        THEN PeakIsLowestMaximum
        ELSE max_bin = 0 /\ max_mag = 0

C4_Witness ==
    /\ pc = "peaked"
    /\ max_mag > 0
    /\ \E k \in Candidates : k > max_bin /\ buffer[k] = max_mag
    /\ buffer[0] > max_mag

(* C5: whatever the buffer length, every frame processed starts at an      *)
(* offset s with s + F <= N, so no sample is read out of bounds.           *)
C5_FramesInBounds ==
    /\ pc # "panic"
    /\ frames > 0 =>
          /\ start - hop_size >= 0
          /\ (start - hop_size) + fft_size <= Len(samples)

C5_Witness ==
    /\ frames >= 2
    /\ pc = "scan"
    /\ (start - hop_size) + fft_size + 1 = Len(samples)

(* C6: for an all-zero buffer of any length the histogram is empty in      *)
(* every state of the scan and after it: no frame is ever counted.         *)
C6_SilentEmpty ==
    Silent => /\ Keys = {}
              /\ midi_note = None
              /\ counts_vec = <<>>
              /\ shown = <<>>

C6_Witness == Silent /\ frames >= 2 /\ pc = "done" /\ Keys = {}

(* C7: with fewer samples than one frame (none included) the scan          *)
(* processes no frame and ends normally, and the histogram, the ranked     *)
(* sequence and the presented list stay empty.                             *)
C7_ShortBuffer ==
    Len(samples) < fft_size =>
        /\ frames = 0
        /\ pc \in {"scan", "sort", "print", "done"}
        /\ pc = "scan" => ENABLED EndScan
        /\ Keys = {}
        /\ counts_vec = <<>>
        /\ shown = <<>>

C7_Witness ==
    /\ Len(samples) > 0
    /\ Len(samples) < fft_size
    /\ ~Silent
    /\ pc = "done"

PitchClasses == <<"C", "C#", "D", "D#", "E", "F", "F#", "G", "G#", "A", "A#", "B">>

(* C8: every pitch p in 0..127 is named by the class at index p mod 12     *)
(* followed by the octave max(0, floor(p / 12) - 1); the pitch of 440 Hz,  *)
(* 69, is named "A4".                                                      *)
C8_NoteName ==
    (pc = "named" /\ midi_note[1] <= MaxMidi) =>
        /\ name = PitchClasses[(midi_note[1] % 12) + 1]
                      \o ToString(Max(0, midi_note[1] \div 12 - 1))
        /\ midi_note[1] = 0  => name = "C0"
        /\ midi_note[1] = 11 => name = "B0"
        /\ midi_note[1] = 12 => name = "C0"
        /\ midi_note[1] = 127 => name = "G9"
        /\ freq = <<RefFreq, 1>> => midi_note = Some(RefNote) /\ name = "A4"

C8_Witness ==
    pc = "named" /\ freq = <<440, 1>> /\ midi_note = Some(69) /\ name = "A4"

(* C9: the ranked sequence holds every key of the histogram once, with its *)
(* count, in non-increasing order of count; the list presented is its      *)
(* first min(10, number of keys) entries, so nothing presented has a       *)
(* smaller count than an entry left out.                                   *)
C9_Ranked ==
    /\ pc \in {"print", "done"} =>
          /\ Len(counts_vec) = Cardinality(Keys)
          /\ \A k \in Keys :
                 \E i \in 1..Len(counts_vec) : counts_vec[i] = <<k, note_counts[k]>>
          /\ \A i, j \in 1..Len(counts_vec) :
                 i < j => counts_vec[i][2] >= counts_vec[j][2]
    /\ pc = "done" =>
          /\ Len(shown) = Min(10, Cardinality(Keys))
          /\ \A i \in 1..Len(shown) :
                 shown[i] = <<midi_note_to_name(counts_vec[i][1]), counts_vec[i][2]>>
          /\ \A i \in 1..Len(shown) : \A j \in (Len(shown) + 1)..Len(counts_vec) :
                 shown[i][2] >= counts_vec[j][2]

C9_Witness ==
    /\ pc = "done"
    /\ Len(counts_vec) > 10
    /\ Len(shown) = 10
    /\ shown[1][2] > counts_vec[11][2]
    /\ shown[10][2] = counts_vec[11][2]

FrameStep == frames' = frames + 1 /\ pc' = "scan"

Accepted(f, mag) ==
    /\ f[1] >= 20 * f[2]
    /\ mag >= 10
    /\ freq_to_midi_note(f) # None

C10_Shape ==
    /\ Keys \subseteq 0..127
    /\ \A k \in Keys : note_counts[k] >= 1
    /\ Total(note_counts) <= frames

C10_Step ==
    IF FrameStep /\ Accepted(freq', max_mag')
    THEN LET k == freq_to_midi_note(freq')[1]
         IN  /\ DOMAIN note_counts' = Keys \cup {k}
             /\ note_counts'[k] = (IF k \in Keys THEN note_counts[k] ELSE 0) + 1
             /\ \A j \in Keys \ {k} : note_counts'[j] = note_counts[j]
             /\ Total(note_counts') = Total(note_counts) + 1
    ELSE note_counts' = note_counts

(* C10: the histogram starts empty; a frame that is accepted (peak at 20   *)
(* Hz or more, magnitude at least 0.01, a pitch returned) raises exactly   *)
(* one count by one, creating it at 1, and any other step leaves the       *)
(* histogram as it is, so the counts sum to the number of accepted frames; *)
(* every key is in 0..127 and every count at least 1.                      *)
C10_Histogram ==
    /\ (pc = "scan" /\ frames = 0) => Keys = {}
    /\ [](C10_Shape)
    /\ [][C10_Step]_vars

C10_Witness ==
    /\ \E k \in Keys : note_counts[k] >= 2
    /\ Total(note_counts) < frames

=============================================================================
